---------------------------- MODULE Spec2Model ----------------------------
(***************************************************************************)
(* Model of noisylogdetector.py: the rule loader, the timestamp gate, the  *)
(* level detector, sensitive-data redaction and the per-line classifier.   *)
(*                                                                         *)
(* A Python str is a sequence of one-character strings.  A regular         *)
(* expression is the sequence of its atoms: a literal character, "\\d",    *)
(* "\\b", "\\[", "\\]", or an opening "(" that nothing closes (the one     *)
(* atom re.compile rejects).                                               *)
(***************************************************************************)
EXTENDS Integers, Sequences, FiniteSets, TLC

VARIABLES pc, config, rules, log_file, ln,
          sensitive_res, noisy_logs, sensitive_logs, severity_violations,
          report, argv, text, out

vars == <<pc, config, rules, log_file, ln,
          sensitive_res, noisy_logs, sensitive_logs, severity_violations,
          report, argv, text, out>>

-----------------------------------------------------------------------------
(* Bounds of the model. *)

\* lines in a log file
MaxLines == 2
\* fragments in a text handed to detect_level or to redact_sensitive
MaxWords == 3

-----------------------------------------------------------------------------
(* Characters. *)

Digits == {"0","1","2","3","4","5","6","7","8","9"}

UpperSeq == <<"A","B","C","D","E","F","G","H","I","J","K","L","M","N","O","P","Q","R","S","T","U","V","W","X","Y","Z">>

LowerSeq == <<"a","b","c","d","e","f","g","h","i","j","k","l","m","n","o","p","q","r","s","t","u","v","w","x","y","z">>

Letters == {UpperSeq[i] : i \in 1..26} \cup {LowerSeq[i] : i \in 1..26}

\* \s of the re module, on the characters the model uses
Whitespace == {" ", "\t", "\n"}

\* \w of the re module
IsWord(c) == c \in Letters \/ c \in Digits \/ c = "_"

\* str.lower() on one character
LowerChar(c) ==
    IF \E i \in 1..26 : UpperSeq[i] = c
    THEN LowerSeq[CHOOSE i \in 1..26 : UpperSeq[i] = c]
    ELSE c

\* str.lower()
lower(s) == [i \in 1..Len(s) |-> LowerChar(s[i])]

\* str.rstrip(): trailing whitespace removed
rstrip(s) ==
    LET kept == {i \in 1..Len(s) : s[i] \notin Whitespace}
    IN  IF kept = {} THEN <<>>
        ELSE SubSeq(s, 1, CHOOSE i \in kept : \A j \in kept : j <= i)

\* "needle in haystack" on two str
Contains(hay, needle) ==
    \E i \in 1..(Len(hay) - Len(needle) + 1) :
        SubSeq(hay, i, i + Len(needle) - 1) = needle

\* sep.join(items)
RECURSIVE join(_, _)
join(sep, items) ==
    IF Len(items) = 0 THEN <<>>
    ELSE IF Len(items) = 1 THEN items[1]
    ELSE items[1] \o sep \o join(sep, Tail(items))

-----------------------------------------------------------------------------
(* The re module on atom sequences. *)

\* re.compile(p) raises re.error on an unterminated group
Compiles(p) == \A k \in 1..Len(p) : p[k] # "("

AtomMatches(a, c) ==
    CASE a = "\\d" -> c \in Digits
      [] a = "\\[" -> c = "["
      [] a = "\\]" -> c = "]"
      [] OTHER     -> a = c

\* \b between s[j-1] and s[j]; outside the string counts as a non-word
AtBoundary(s, j) ==
    LET before == j > 1 /\ IsWord(s[j - 1])
        after  == j <= Len(s) /\ IsWord(s[j])
    IN  before # after

\* atoms k.. of p match s from position j on
RECURSIVE MatchFrom(_, _, _, _)
MatchFrom(p, s, k, j) ==
    IF k > Len(p) THEN TRUE
    ELSE IF p[k] = "\\b" THEN AtBoundary(s, j) /\ MatchFrom(p, s, k + 1, j)
    ELSE /\ j <= Len(s)
         /\ AtomMatches(p[k], s[j])
         /\ MatchFrom(p, s, k + 1, j + 1)

\* characters one match of p consumes
Width(p) == Cardinality({k \in 1..Len(p) : p[k] # "\\b"})

\* bool(r.search(s))
re_search(p, s) == \E i \in 1..(Len(s) + 1) : MatchFrom(p, s, 1, i)

\* "".join(pieces[lo..hi])
RECURSIVE Flatten(_, _, _)
Flatten(pieces, lo, hi) ==
    IF lo > hi THEN <<>>
    ELSE IF lo = hi THEN pieces[lo]
    ELSE Flatten(pieces, lo, (lo + hi) \div 2)
         \o Flatten(pieces, (lo + hi) \div 2 + 1, hi)

\* r.sub replaces the leftmost non-overlapping matches: the match at i, unless a
\* replaced match that starts before i reaches into it (w is the width of p)
RECURSIVE Replaced(_, _, _, _)
Replaced(p, w, s, i) ==
    /\ MatchFrom(p, s, 1, i)
    /\ \A j \in (i - w + 1)..(i - 1) : j < 1 \/ ~Replaced(p, w, s, j)

\* what r.sub puts out for position i of s: repl for a replaced match (an empty
\* match keeps the character after it), nothing inside a replaced match, the
\* character itself elsewhere
SubPiece(p, w, repl, s, i) ==
    IF Replaced(p, w, s, i)
    THEN IF w = 0 /\ i <= Len(s) THEN repl \o <<s[i]>> ELSE repl
    ELSE IF i > Len(s) THEN <<>>
    ELSE IF \E j \in (i - w + 1)..(i - 1) : j >= 1 /\ Replaced(p, w, s, j)
    THEN <<>>
    ELSE <<s[i]>>

SubAll(p, w, repl, s) ==
    Flatten([i \in 1..(Len(s) + 1) |-> SubPiece(p, w, repl, s, i)], 1, Len(s) + 1)

\* (as re_sub, with count=1: the first match alone is replaced)
re_sub_first_only(p, repl, s) ==
    IF re_search(p, s)
    THEN LET i == CHOOSE i \in 1..(Len(s) + 1) :
                    /\ MatchFrom(p, s, 1, i)
                    /\ \A j \in 1..(i - 1) : ~MatchFrom(p, s, 1, j)
         IN  SubSeq(s, 1, i - 1) \o repl \o SubSeq(s, i + Width(p), Len(s))
    ELSE s

\* r.sub(repl, s)
re_sub(p, repl, s) == SubAll(p, Width(p), repl, s)

-----------------------------------------------------------------------------
(* starts_with_date_and_timestamp *)

DigitsAt(s, i, n) ==
    /\ i + n - 1 <= Len(s)
    /\ \A k \in i..(i + n - 1) : s[k] \in Digits

\* \d{2}:\d{2}:\d{2} at position i
HMSAt(s, i) ==
    /\ i + 7 <= Len(s)
    /\ DigitsAt(s, i, 2) /\ s[i + 2] = ":"
    /\ DigitsAt(s, i + 3, 2) /\ s[i + 5] = ":"
    /\ DigitsAt(s, i + 6, 2)

\* \s+ from position i up to, not including, position j
SpacesBetween(s, i, j) ==
    /\ i < j /\ j <= Len(s) + 1
    /\ \A k \in i..(j - 1) : s[k] \in Whitespace

\* \d{4}-\d{2}-\d{2}\s+\d{2}:\d{2}:\d{2} at position i
DateTimeAt(s, i) ==
    /\ DigitsAt(s, i, 4) /\ i + 9 <= Len(s)
    /\ s[i + 4] = "-" /\ DigitsAt(s, i + 5, 2)
    /\ s[i + 7] = "-" /\ DigitsAt(s, i + 8, 2)
    /\ \E j \in (i + 11)..(Len(s) + 1) :
          SpacesBetween(s, i + 10, j) /\ HMSAt(s, j)

Months == { <<"J","a","n">>, <<"F","e","b">>, <<"M","a","r">>, <<"A","p","r">>, <<"M","a","y">>, <<"J","u","n">>,
            <<"J","u","l">>, <<"A","u","g">>, <<"S","e","p">>, <<"O","c","t">>, <<"N","o","v">>, <<"D","e","c">> }

\* (Jan|...|Dec)\s+\d{1,2}\s+\d{2}:\d{2}:\d{2} at position i
SyslogAt(s, i) ==
    /\ i + 2 <= Len(s)
    /\ SubSeq(s, i, i + 2) \in Months
    /\ \E d \in (i + 4)..(Len(s) + 1) : \E n \in {1, 2} :
          /\ SpacesBetween(s, i + 3, d)
          /\ DigitsAt(s, d, n)
          /\ \E j \in (d + n + 1)..(Len(s) + 1) :
                SpacesBetween(s, d + n, j) /\ HMSAt(s, j)

\* re.match: anchored at the start, after \s*
starts_with_date_and_timestamp(line) ==
    \E i \in 1..(Len(line) + 1) :
        /\ \A k \in 1..(i - 1) : line[k] \in Whitespace
        /\ HMSAt(line, i) \/ DateTimeAt(line, i) \/ SyslogAt(line, i)

-----------------------------------------------------------------------------
(* detect_level *)

FATAL   == <<"F","A","T","A","L">>
ERROR   == <<"E","R","R","O","R">>
WARN    == <<"W","A","R","N">>
INFO    == <<"I","N","F","O">>
DEBUG   == <<"D","E","B","U","G">>
TRACE   == <<"T","R","A","C","E">>
UNKNOWN == <<"U","N","K","N","O","W","N">>

\* (as LevelOrder, INFO tried before ERROR)
LevelOrder_info_first == <<FATAL, INFO, ERROR, WARN, DEBUG, TRACE>>

\* the tuple detect_level iterates over
LevelOrder == <<FATAL, ERROR, WARN, INFO, DEBUG, TRACE>>

\* (as LevelSearch, the \b left out: the token anywhere, inside a word too)
LevelSearch_substring(lvl, line) == re_search(lvl, line)

\* re.search(rf"\b{lvl}\b", line)
LevelSearch(lvl, line) == re_search(<<"\\b">> \o lvl \o <<"\\b">>, line)

RECURSIVE DetectFrom(_, _, _)
DetectFrom(order, k, line) ==
    IF k > Len(order) THEN UNKNOWN
    ELSE IF LevelSearch(order[k], line) THEN order[k]
    ELSE DetectFrom(order, k + 1, line)

detect_level(line) == DetectFrom(LevelOrder, 1, line)

-----------------------------------------------------------------------------
(* Values of rules.yml.  yaml.safe_load gives a list, a str, an int or None *)
(* for a key, and a key may be absent from the mapping.                     *)

PyList(v) == [kind |-> "list", val |-> v]
PyStr(v)  == [kind |-> "str", val |-> v]
PyInt   == [kind |-> "int", val |-> <<>>]
PyNone  == [kind |-> "none", val |-> <<>>]
PyAbsent == [kind |-> "absent", val |-> <<>>]

\* "for x in v" and "x in v" work on a list and on a str, and raise
\* TypeError on an int
Iterable(v) == v.kind \in {"list", "str"}

\* the items "for x in v" yields: the elements of a list, the characters of a str
Iter(v) ==
    IF v.kind = "list" THEN v.val
    ELSE [i \in 1..Len(v.val) |-> <<v.val[i]>>]

\* "x in v": membership in a list, substring of a str
In(x, v) ==
    IF v.kind = "list" THEN \E i \in 1..Len(v.val) : v.val[i] = x
    ELSE Contains(v.val, x)

required_keys ==
    <<"sensitive_patterns", "failure_keywords",
      "noisy_log_levels", "required_severity_on_failure">>

\* [k for k in required_keys if k not in rules or rules[k] is None]
missing(cfg) ==
    SelectSeq(required_keys, LAMBDA k : cfg[k].kind \in {"absent", "none"})

-----------------------------------------------------------------------------
(* analyze *)

REDACTED == <<"[","R","E","D","A","C","T","E","D","]">>

\* [re.compile(p) for p in patterns] raises when one pattern does not compile
CompileRaises(patterns) ==
    \/ ~Iterable(patterns)
    \/ \E i \in 1..Len(Iter(patterns)) : ~Compiles(Iter(patterns)[i])

compile_patterns(patterns) == Iter(patterns)

\* (as redact_sensitive, returning inside the loop: the first pattern alone)
redact_first_only(res, line) ==
    IF Len(res) = 0 THEN line ELSE re_sub(Head(res), REDACTED, line)

\* for r in sensitive_res: line = r.sub("[REDACTED]", line)
RECURSIVE redact_sensitive(_, _)
redact_sensitive(res, line) ==
    IF Len(res) = 0 THEN line
    ELSE redact_sensitive(Tail(res), re_sub(Head(res), REDACTED, line))

\* (as enumerate, counting from start - 1)
enumerate_off_by_one(f, start) == [i \in 1..Len(f) |-> <<start + i - 2, f[i]>>]

\* enumerate(f, start)
enumerate(f, start) == [i \in 1..Len(f) |-> <<start + i - 1, f[i]>>]

Finding(n, log, reason) == [line |-> n, log |-> log, reason |-> reason]

\* (as NoisyRule, testing the level against the wrong key of the rules)
NoisyRule_wrong_key(noisy, n, line, level, rls, res) ==
    IF In(level, rls.required_severity_on_failure)
    THEN Append(noisy, Finding(n, redact_sensitive(res, line),
                               <<"Noisy log level: ">> \o level))
    ELSE noisy

\* lines 155-160
NoisyRule(noisy, n, line, level, rls, res) ==
    IF In(level, rls.noisy_log_levels)
    THEN Append(noisy, Finding(n, redact_sensitive(res, line),
                               <<"Noisy log level: ">> \o level))
    ELSE noisy

\* (as SensitiveRule, the break left out: one finding per matching pattern)
SensitiveRule_no_break(sensitive, n, line, res) ==
    sensitive \o
    [i \in 1..Cardinality({k \in 1..Len(res) : re_search(res[k], line)}) |->
        Finding(n, redact_sensitive(res, line), <<"Sensitive / PII data detected">>)]

\* lines 162-169: one finding on the first pattern that matches, then break
SensitiveRule(sensitive, n, line, res) ==
    IF \E i \in 1..Len(res) : re_search(res[i], line)
    THEN Append(sensitive, Finding(n, redact_sensitive(res, line),
                                   <<"Sensitive / PII data detected">>))
    ELSE sensitive

\* (as HasFailureKeyword, the line not lowered)
HasFailureKeyword_case_sensitive(line, failure_keywords) ==
    \E i \in 1..Len(Iter(failure_keywords)) :
        Contains(line, Iter(failure_keywords)[i])

\* any(k in line.lower() for k in failure_keywords)
HasFailureKeyword(line, failure_keywords) ==
    \E i \in 1..Len(Iter(failure_keywords)) :
        Contains(lower(line), Iter(failure_keywords)[i])

\* lines 171-180
SeverityRule(severity, n, line, level, rls, res) ==
    IF /\ HasFailureKeyword(line, rls.failure_keywords)
       /\ ~In(level, rls.required_severity_on_failure)
    THEN Append(severity,
                Finding(n, redact_sensitive(res, line),
                        <<"Failure logged without required severity: ">>
                        \o join(<<", ">>, Iter(rls.required_severity_on_failure))))
    ELSE severity

\* (as SkipLine, the continue never taken)
SkipLine_never(line) == FALSE

\* if not starts_with_date_and_timestamp(line): continue
SkipLine(line) == ~starts_with_date_and_timestamp(line)

\* the body of the loop for one (ln, line) pair; acc holds the three lists and
\* whether a TypeError left the loop
analyze_body(acc, n, raw, rls, res) ==
    LET line == rstrip(raw)
    IN  IF SkipLine(line) THEN acc
        ELSE
        LET level == detect_level(line)
        IN  IF ~Iterable(rls.noisy_log_levels)
            THEN [acc EXCEPT !.raised = TRUE]
            ELSE
            LET a1 == [acc EXCEPT
                         !.noisy = NoisyRule(@, n, line, level, rls, res),
                         !.sensitive = SensitiveRule(@, n, line, res)]
            IN  IF ~Iterable(rls.failure_keywords)
                THEN [a1 EXCEPT !.raised = TRUE]
                ELSE IF ~HasFailureKeyword(line, rls.failure_keywords) THEN a1
                ELSE IF ~Iterable(rls.required_severity_on_failure)
                THEN [a1 EXCEPT !.raised = TRUE]
                ELSE [a1 EXCEPT
                        !.severity = SeverityRule(@, n, line, level, rls, res)]

-----------------------------------------------------------------------------
(* generate_html *)

\* html.escape on one character
EscapeChar(c) ==
    CASE c = "&"  -> <<"&","a","m","p",";">>
      [] c = "<"  -> <<"&","l","t",";">>
      [] c = ">"  -> <<"&","g","t",";">>
      [] c = "\"" -> <<"&","q","u","o","t",";">>
      [] c = "'"  -> <<"&","#","x","2","7",";">>
      [] OTHER    -> <<c>>

\* html.escape
escape(s) == Flatten([i \in 1..Len(s) |-> EscapeChar(s[i])], 1, Len(s))

\* one table of the report: a row per finding, or the note when there is none
write_section(title, rows) ==
    [title |-> title,
     note  |-> IF Len(rows) = 0 THEN "No issues found in this section." ELSE "",
     rows  |-> [i \in 1..Len(rows) |->
                  [line |-> rows[i].line,
                   reason |-> escape(rows[i].reason),
                   log |-> escape(rows[i].log)]]]

generate_html(noisy, sensitive, severity) ==
    <<write_section("Noisy Logs", noisy),
      write_section("Sensitive / PII Logs", sensitive),
      write_section("Severity Violations", severity)>>

-----------------------------------------------------------------------------
(* The run of the script: __main__, load_rules, analyze, generate_html. *)

NoRules == [k \in {required_keys[i] : i \in 1..Len(required_keys)} |-> PyAbsent]

\* lines 227-241: the argument count and the existence of the log file
Main ==
    /\ pc = "main"
    /\ pc' = IF argv.argc < 3 \/ ~argv.log_exists THEN "exit" ELSE "load_rules"
    /\ UNCHANGED <<config, rules, log_file, ln, sensitive_res, noisy_logs,
                   sensitive_logs, severity_violations, report, argv, text, out>>

\* load_rules returns the mapping, or exits on an unreadable file, on a
\* document that is no mapping, and on a required key that is absent or None
LoadRules ==
    /\ pc = "load_rules"
    /\ IF config.file # "mapping" \/ Len(missing(config.doc)) > 0
       THEN pc' = "exit" /\ rules' = rules
       ELSE pc' = "analyze" /\ rules' = config.doc
    /\ UNCHANGED <<config, log_file, ln, sensitive_res, noisy_logs,
                   sensitive_logs, severity_violations, report, argv, text, out>>

\* lines 134-139: the empty lists and the compiled patterns; re.compile or the
\* iteration may raise, and the exception leaves the script
AnalyzeBegin ==
    /\ pc = "analyze"
    /\ IF CompileRaises(rules.sensitive_patterns)
       THEN pc' = "raised" /\ sensitive_res' = sensitive_res
       ELSE pc' = "scan"
            /\ sensitive_res' = compile_patterns(rules.sensitive_patterns)
    /\ noisy_logs' = <<>> /\ sensitive_logs' = <<>> /\ severity_violations' = <<>>
    /\ UNCHANGED <<config, rules, log_file, ln, report, argv, text, out>>

\* one iteration of "for ln, line in enumerate(f, 1)"
ScanLine ==
    /\ pc = "scan"
    /\ ln < Len(log_file)
    /\ \E item \in {enumerate(log_file, 1)[ln + 1]} :
       \E acc \in {analyze_body([noisy |-> noisy_logs,
                                 sensitive |-> sensitive_logs,
                                 severity |-> severity_violations,
                                 raised |-> FALSE],
                                item[1], item[2], rules, sensitive_res)} :
           /\ ln' = ln + 1
           /\ noisy_logs' = acc.noisy
           /\ sensitive_logs' = acc.sensitive
           /\ severity_violations' = acc.severity
           /\ pc' = IF acc.raised THEN "raised" ELSE "scan"
    /\ UNCHANGED <<config, rules, log_file, sensitive_res, report, argv, text, out>>

\* the file is exhausted: analyze returns the three lists
AnalyzeReturn ==
    /\ pc = "scan"
    /\ ln = Len(log_file)
    /\ pc' = "generate_html"
    /\ UNCHANGED <<config, rules, log_file, ln, sensitive_res, noisy_logs,
                   sensitive_logs, severity_violations, report, argv, text, out>>

GenerateHtml ==
    /\ pc = "generate_html"
    /\ report' = generate_html(noisy_logs, sensitive_logs, severity_violations)
    /\ pc' = "done"
    /\ UNCHANGED <<config, rules, log_file, ln, sensitive_res, noisy_logs,
                   sensitive_logs, severity_violations, argv, text, out>>

Next ==
    \/ Main
    \/ LoadRules
    \/ AnalyzeBegin
    \/ ScanLine
    \/ AnalyzeReturn
    \/ GenerateHtml

-----------------------------------------------------------------------------
(* Inputs. *)

\* \b\d{3}-\d{2}-\d{4}\b
SSN == <<"\\b", "\\d", "\\d", "\\d", "-", "\\d", "\\d", "-",
         "\\d", "\\d", "\\d", "\\d", "\\b">>

\* \d{3}-\d{2}-\d{4}
SSNPlain == <<"\\d", "\\d", "\\d", "-", "\\d", "\\d", "-",
              "\\d", "\\d", "\\d", "\\d">>

ACCT == <<"a","c","c","t">>

TED == <<"T","E","D">>

\* id\[
IDBR == <<"i", "d", "\\[">>

\* values of sensitive_patterns
PatternLists ==
    { <<>>, <<SSN, ACCT>>, <<ACCT, SSNPlain>>, <<TED>> }

\* failure keywords, noisy levels, required severities
Policies ==
    { [failure_keywords |-> <<<<"f","a","i","l">>, <<"t","i","m","e","o","u","t">>>>,
       noisy_log_levels |-> <<INFO, DEBUG, TRACE>>,
       required_severity_on_failure |-> <<ERROR, FATAL>>],
      [failure_keywords |-> <<<<"e","r","r","o","r">>>>,
       noisy_log_levels |-> <<UNKNOWN, WARN>>,
       required_severity_on_failure |-> <<ERROR, WARN, INFO>>],
      [failure_keywords |-> <<<<"f","a","i","l">>, <<"t","i","m","e","o","u","t">>>>,
       noisy_log_levels |-> <<UNKNOWN, WARN>>,
       required_severity_on_failure |-> <<ERROR, FATAL>>] }

RuleSets ==
    { [sensitive_patterns |-> PyList(p),
       failure_keywords |-> PyList(q.failure_keywords),
       noisy_log_levels |-> PyList(q.noisy_log_levels),
       required_severity_on_failure |-> PyList(q.required_severity_on_failure)] :
      p \in PatternLists, q \in Policies }

\* raw lines of a log file, newline included
LineSet ==
    { <<"2","0","2","4","-","1","1","-","1","1"," ","0","4",":","3","1",":","1","4"," ","I","N","F","O"," ","t","i","m","e","o","u","t",","," ","s","s","n"," ","1","2","3","-","4","5","-","6","7","8","9","\n">>,
      <<"g","a","r","b","a","g","e"," ","n","o"," ","t","i","m","e","s","t","a","m","p"," ","E","R","R","O","R"," ","f","a","i","l"," ","1","2","3","-","4","5","-","6","7","8","9","\n">>,
      <<" "," ","\n">>,
      <<"0","4",":","3","1",":","1","4",".","1","0","9"," ","E","R","R","O","R"," ","F","A","I","L"," ","a","c","c","t","1","2","3","-","4","5","-","6","7","8","9","\n">>,
      <<"N","o","v"," "," ","1"," ","0","4",":","3","1",":","1","4"," ","d","i","s","k"," ","F","a","i","l","u","r","e",","," ","T","E","D"," ","\n">>,
      <<"\t","1","2",":","0","0",":","0","0"," ","D","E","B","U","G"," ","a","c","c","t"," ","1","2","3","-","4","5","-","6","7","8","9"," ","o","k","\n">> }

\* the log lines of the runs that start from any rules.yml
ConfigLines ==
    { <<"0","4",":","3","1",":","1","4"," ","I","N","F","O"," ","f","a","i","l"," ","a","c","c","t"," ","1","2","3","-","4","5","-","6","7","8","9","\n">>, <<"n","o"," ","t","i","m","e","s","t","a","m","p","\n">> }

\* the sequences of at most n elements of S
RECURSIVE SeqsUpTo(_, _)
SeqsUpTo(S, n) ==
    IF n = 0 THEN { <<>> }
    ELSE LET shorter == SeqsUpTo(S, n - 1)
         IN  shorter \cup { Append(s, x) : s \in shorter, x \in S }

Files == SeqsUpTo(LineSet, MaxLines)

ArgvOk == [argc |-> 3, log_exists |-> TRUE]

\* a run with a valid rules.yml and an existing log file
Init ==
    /\ pc = "main"
    /\ argv = ArgvOk
    /\ \E r \in RuleSets : config = [file |-> "mapping", doc |-> r]
    /\ rules = NoRules
    /\ log_file \in Files
    /\ ln = 0
    /\ sensitive_res = <<>>
    /\ noisy_logs = <<>> /\ sensitive_logs = <<>> /\ severity_violations = <<>>
    /\ report = <<>>
    /\ text = <<>> /\ out = <<>>

Spec == Init /\ [][Next]_vars

\* the mapping yaml.safe_load returns
Doc(p, k, n, r) ==
    [sensitive_patterns |-> p, failure_keywords |-> k,
     noisy_log_levels |-> n, required_severity_on_failure |-> r]

\* rules.yml: unreadable, no mapping, or a mapping whose four values each are
\* absent, None, an int, a str or a list (one list holds a pattern that does
\* not compile)
Configs ==
    { [file |-> f, doc |-> NoRules] :
        f \in {"not_found", "permission", "yaml_error", "not_mapping"} }
    \cup
    { [file |-> "mapping", doc |-> Doc(p, k, n, r)] :
        p \in {PyAbsent, PyNone, PyInt, PyStr(ACCT), PyList(<<SSN>>),
               PyList(<<SSN, <<"(", "a">> >>)},
        k \in {PyNone, PyInt, PyStr(<<"f","a","i","l">>), PyList(<<<<"f","a","i","l">>>>)},
        n \in {PyAbsent, PyInt, PyStr(INFO), PyList(<<INFO, DEBUG>>)},
        r \in {PyNone, PyInt, PyStr(ERROR), PyList(<<ERROR, FATAL>>)} }

ValidDoc == Doc(PyList(<<SSN>>), PyList(<<<<"f","a","i","l">>>>),
                PyList(<<INFO, DEBUG>>), PyList(<<ERROR, FATAL>>))

\* a run with any rules.yml, and the runs the argument checks end
InitConfig ==
    /\ pc = "main"
    /\ \/ /\ argv = ArgvOk
          /\ config \in Configs
          /\ log_file \in SeqsUpTo(ConfigLines, MaxLines)
       \/ /\ argv \in {[argc |-> 2, log_exists |-> TRUE],
                       [argc |-> 3, log_exists |-> FALSE]}
          /\ config = [file |-> "mapping", doc |-> ValidDoc]
          /\ log_file = <<>>
    /\ rules = NoRules
    /\ ln = 0
    /\ sensitive_res = <<>>
    /\ noisy_logs = <<>> /\ sensitive_logs = <<>> /\ severity_violations = <<>>
    /\ report = <<>>
    /\ text = <<>> /\ out = <<>>

SpecConfig == InitConfig /\ [][Next]_vars

-----------------------------------------------------------------------------
(* detect_level and redact_sensitive on their own. *)

RECURSIVE Concat(_)
Concat(ss) == IF Len(ss) = 0 THEN <<>> ELSE Head(ss) \o Concat(Tail(ss))

Texts(frags) == { Concat(ws) : ws \in SeqsUpTo(frags, MaxWords) }

\* the pieces texts are put together from
LevelFrags ==
    { <<"I","N","F","O"," ">>, <<" ","E","R","R","O","R">>, <<"F","A","T","A","L",":">>, <<"W","A","R","N">>, <<"-","D","E","B","U","G">>, <<"T","R","A","C","E">>,
      <<"S">>, <<"_","F","A","T","A","L"," ">>, <<"i","n","f","o"," ">> }

RedactFrags ==
    { ACCT, <<"1","2","3","-","4","5","-","6","7","8","9">>, <<" ">>, TED, <<"i","d">>, <<"[">>, <<"x">> }

RedactPatternLists ==
    PatternLists \cup { <<SSN>>, <<IDBR>>, <<<<"4","5">>, SSNPlain>> }

InitIdle ==
    /\ pc = "call"
    /\ argv = ArgvOk
    /\ config = [file |-> "mapping", doc |-> ValidDoc]
    /\ rules = NoRules
    /\ log_file = <<>>
    /\ ln = 0
    /\ noisy_logs = <<>> /\ sensitive_logs = <<>> /\ severity_violations = <<>>
    /\ report = <<>>
    /\ out = <<>>

InitLevel ==
    /\ InitIdle
    /\ sensitive_res = <<>>
    /\ text \in Texts(LevelFrags)

\* level = detect_level(line)
DetectLevel ==
    /\ pc = "call"
    /\ Len(out) = 0
    /\ out' = <<detect_level(text)>>
    /\ UNCHANGED <<pc, config, rules, log_file, ln, sensitive_res, noisy_logs,
                   sensitive_logs, severity_violations, report, argv, text>>

SpecLevel == InitLevel /\ [][DetectLevel]_vars

InitRedact ==
    /\ InitIdle
    /\ sensitive_res \in RedactPatternLists
    /\ text \in Texts(RedactFrags)

\* redact_sensitive applied to the text, then to its own result
Redact ==
    /\ pc = "call"
    /\ Len(out) < 2
    /\ out' = Append(out, redact_sensitive(sensitive_res,
                              IF Len(out) = 0 THEN text ELSE out[Len(out)]))
    /\ UNCHANGED <<pc, config, rules, log_file, ln, sensitive_res, noisy_logs,
                   sensitive_logs, severity_violations, report, argv, text>>

SpecRedact == InitRedact /\ [][Redact]_vars

-----------------------------------------------------------------------------
(* Vocabulary of the properties. *)

\* the findings of all three lists
AllFindings ==
    {noisy_logs[i] : i \in 1..Len(noisy_logs)}
    \cup {sensitive_logs[i] : i \in 1..Len(sensitive_logs)}
    \cup {severity_violations[i] : i \in 1..Len(severity_violations)}

\* how many findings of a list carry line number n
CountFor(list, n) == Cardinality({i \in 1..Len(list) : list[i].line = n})

\* line n of the log file as the classifier sees it
LineOf(n) == rstrip(log_file[n])

Passed(n) == starts_with_date_and_timestamp(LineOf(n))

\* the configured lists, as validated rules hold them
NoisyLevels == rules.noisy_log_levels.val
RequiredSeverity == rules.required_severity_on_failure.val
FailureKeywords == rules.failure_keywords.val

Among(x, list) == \E i \in 1..Len(list) : list[i] = x

\* a pattern whose matches are non-empty and depend on the matched characters alone
ContextFree(p) == Len(p) >= 1 /\ \A k \in 1..Len(p) : p[k] # "\\b"

\* a pattern no match of which holds a character of the token [REDACTED]
TokenFree(p) ==
    \A k \in 1..Len(p) : \A j \in 1..Len(REDACTED) : ~AtomMatches(p[k], REDACTED[j])

PlainPatterns(res) ==
    \A i \in 1..Len(res) : ContextFree(res[i]) /\ TokenFree(res[i])

\* tok stands in s as a whole word: no word character before it or after it
WholeWord(tok, s) ==
    \E i \in 1..(Len(s) - Len(tok) + 1) :
        /\ SubSeq(s, i, i + Len(tok) - 1) = tok
        /\ (i = 1 \/ ~IsWord(s[i - 1]))
        /\ (i + Len(tok) - 1 = Len(s) \/ ~IsWord(s[i + Len(tok)]))

\* the priority list of the level detector, as the specification states it
Priority == <<FATAL, ERROR, WARN, INFO, DEBUG, TRACE>>

\* kw occurs in s as a substring, letter case ignored
OccursIgnoringCase(kw, s) ==
    \E i \in 1..(Len(s) - Len(kw) + 1) :
        \A j \in 1..Len(kw) : LowerChar(s[i + j - 1]) = LowerChar(kw[j])

IsPrefix(a, b) == Len(a) <= Len(b) /\ SubSeq(b, 1, Len(a)) = a

-----------------------------------------------------------------------------
(* C1 *)

\* C1 as stated: no finding's text holds a substring that a configured sensitive
\* pattern matches, whatever the patterns.
C1_NoSensitiveMatchInFindings ==
    \A f \in AllFindings : \A i \in 1..Len(sensitive_res) :
        ~re_search(sensitive_res[i], f.log)

\* C1, amended: when every configured pattern matches non-empty spans by their
\* characters alone and none of the characters of [REDACTED], no finding's text
\* holds a substring that a configured pattern matches.
C1_NoSensitiveMatchPlainPatterns ==
    PlainPatterns(sensitive_res) =>
        \A f \in AllFindings : \A i \in 1..Len(sensitive_res) :
            ~re_search(sensitive_res[i], f.log)

\* two plain patterns both matched a line, and its finding was redacted
C1_Witness ==
    /\ PlainPatterns(sensitive_res) /\ Len(sensitive_res) = 2
    /\ \E f \in AllFindings :
          /\ \A i \in 1..2 : re_search(sensitive_res[i], LineOf(f.line))
          /\ f.log # LineOf(f.line)

(* C2 *)

\* C2: a line that fails the timestamp gate has no finding under its number in
\* any of the three lists.
C2_GateFailureYieldsNoFinding ==
    \A n \in 1..Len(log_file) :
        ~Passed(n) => \A f \in AllFindings : f.line # n

\* the scan went over a line with no timestamp that holds a level token, a
\* failure keyword and a sensitive match
C2_Witness ==
    /\ pc = "done"
    /\ \E n \in 1..ln :
          /\ ~Passed(n)
          /\ detect_level(LineOf(n)) = ERROR
          /\ HasFailureKeyword(LineOf(n), rules.failure_keywords)
          /\ \E i \in 1..Len(sensitive_res) : re_search(sensitive_res[i], LineOf(n))

(* C3 *)

\* C3: a line that passed the gate has exactly one noisy finding, with reason
\* "Noisy log level: " + level, when its level is a noisy level, and none
\* otherwise, whatever the other two rules did with the line.
C3_NoisyIffLevelNoisy ==
    \A n \in 1..ln :
        Passed(n) =>
            LET level == detect_level(LineOf(n))
            IN  /\ CountFor(noisy_logs, n) = IF Among(level, NoisyLevels) THEN 1 ELSE 0
                /\ \A i \in 1..Len(noisy_logs) :
                      noisy_logs[i].line = n =>
                          noisy_logs[i].reason = <<"Noisy log level: ">> \o level

\* one line stands in all three lists
C3_Witness ==
    \E n \in 1..ln :
        /\ CountFor(noisy_logs, n) = 1
        /\ CountFor(sensitive_logs, n) = 1
        /\ CountFor(severity_violations, n) = 1

(* C4 *)

\* C4: a line that passed the gate has exactly one sensitive finding when some
\* configured pattern matches the raw line, and none otherwise; with no pattern
\* configured the sensitive list is empty.
C4_OneSensitiveFindingPerLine ==
    /\ \A n \in 1..ln :
          Passed(n) =>
              CountFor(sensitive_logs, n) =
                  IF \E i \in 1..Len(sensitive_res) :
                        re_search(sensitive_res[i], LineOf(n))
                  THEN 1 ELSE 0
    /\ (Len(sensitive_res) = 0 => Len(sensitive_logs) = 0)

\* two distinct patterns match one line, which has one sensitive finding
C4_Witness ==
    \E n \in 1..ln : \E i, j \in 1..Len(sensitive_res) :
        /\ i # j /\ sensitive_res[i] # sensitive_res[j]
        /\ re_search(sensitive_res[i], LineOf(n))
        /\ re_search(sensitive_res[j], LineOf(n))
        /\ CountFor(sensitive_logs, n) = 1

(* C5 *)

\* C5: a line that passed the gate has exactly one severity-violation finding
\* when a failure keyword occurs in it, letter case ignored, and its level
\* (UNKNOWN included) is not a required severity, and none otherwise.
C5_SeverityViolationIff ==
    \A n \in 1..ln :
        Passed(n) =>
            CountFor(severity_violations, n) =
                IF /\ \E k \in 1..Len(FailureKeywords) :
                         OccursIgnoringCase(FailureKeywords[k], LineOf(n))
                   /\ ~Among(detect_level(LineOf(n)), RequiredSeverity)
                THEN 1 ELSE 0

\* a failure keyword stands in a line in another letter case, at a required
\* severity, and the line has no severity-violation finding
C5_Witness ==
    \E n \in 1..ln :
        /\ Passed(n)
        /\ \E k \in 1..Len(FailureKeywords) :
              /\ OccursIgnoringCase(FailureKeywords[k], LineOf(n))
              /\ ~Contains(LineOf(n), FailureKeywords[k])
        /\ Among(detect_level(LineOf(n)), RequiredSeverity)
        /\ CountFor(severity_violations, n) = 0

(* C6 *)

\* C6: detect_level returns the first token of FATAL, ERROR, WARN, INFO, DEBUG,
\* TRACE that stands in the text as a whole word, wherever the tokens stand, and
\* UNKNOWN exactly when none of the six does.
C6_FirstWholeWordByPriority ==
    Len(out) = 1 =>
        /\ (out[1] = UNKNOWN <=> \A k \in 1..Len(Priority) : ~WholeWord(Priority[k], text))
        /\ (out[1] # UNKNOWN =>
               \E k \in 1..Len(Priority) :
                   /\ out[1] = Priority[k]
                   /\ WholeWord(Priority[k], text)
                   /\ \A j \in 1..(k - 1) : ~WholeWord(Priority[j], text))

\* a token of lower priority stands to the left of the token returned, and a
\* token of higher priority stands in the text inside a longer word
C6_Witness ==
    /\ Len(out) = 1
    /\ out[1] = ERROR
    /\ WholeWord(INFO, text)
    /\ Contains(text, FATAL) /\ ~WholeWord(FATAL, text)
    /\ \E i, j \in 1..Len(text) :
          /\ i < j
          /\ SubSeq(text, i, i + Len(INFO) - 1) = INFO
          /\ SubSeq(text, j, j + Len(ERROR) - 1) = ERROR

(* C7 *)

\* C7 as stated: a line that holds both the token INFO and the token ERROR is
\* classified ERROR, whatever else it holds.
C7_InfoAndErrorGiveError ==
    (Len(out) = 1 /\ WholeWord(INFO, text) /\ WholeWord(ERROR, text)) =>
        out[1] = ERROR

\* C7, amended: a line that holds both the token INFO and the token ERROR as
\* whole words, in either order, and not the token FATAL as a whole word, is
\* classified ERROR.
C7_InfoAndErrorGiveErrorUnlessFatal ==
    (/\ Len(out) = 1
     /\ WholeWord(INFO, text) /\ WholeWord(ERROR, text)
     /\ ~WholeWord(FATAL, text)) =>
        out[1] = ERROR

\* INFO stands before ERROR, no FATAL, and the level is ERROR
C7_Witness ==
    /\ Len(out) = 1
    /\ WholeWord(INFO, text) /\ WholeWord(ERROR, text) /\ ~WholeWord(FATAL, text)
    /\ SubSeq(text, 1, Len(INFO)) = INFO
    /\ out[1] = ERROR

(* C8 *)

\* no pattern matches the literal token [REDACTED]
NoPatternMatchesToken(res) ==
    \A i \in 1..Len(res) : ~re_search(res[i], REDACTED)

\* C8 as stated: when no pattern matches the literal token [REDACTED],
\* redacting a redacted text gives it back unchanged.
C8_RedactIdempotent ==
    (Len(out) = 2 /\ NoPatternMatchesToken(sensitive_res)) => out[2] = out[1]

\* C8, amended: when every pattern matches non-empty spans by their characters
\* alone and none of the characters of [REDACTED], redacting a redacted text
\* gives it back unchanged.
C8_RedactIdempotentPlainPatterns ==
    (Len(out) = 2 /\ PlainPatterns(sensitive_res)) => out[2] = out[1]

\* two plain patterns, both of which changed the text, redacted twice
C8_Witness ==
    /\ Len(out) = 2
    /\ PlainPatterns(sensitive_res) /\ Len(sensitive_res) = 2
    /\ \A i \in 1..2 : re_search(sensitive_res[i], text)
    /\ out[1] # text

(* C9 *)

InEncounterOrder(list) ==
    /\ \A i, j \in 1..Len(list) : i < j => list[i].line < list[j].line
    /\ \A i \in 1..Len(list) :
          /\ list[i].line \in 1..ln
          /\ Passed(list[i].line)
          /\ list[i].log = redact_sensitive(sensitive_res, LineOf(list[i].line))

ListsInEncounterOrder ==
    /\ InEncounterOrder(noisy_logs)
    /\ InEncounterOrder(sensitive_logs)
    /\ InEncounterOrder(severity_violations)

ListsOnlyGrow ==
    /\ IsPrefix(noisy_logs, noisy_logs')
    /\ IsPrefix(sensitive_logs, sensitive_logs')
    /\ IsPrefix(severity_violations, severity_violations')

\* C9: at every point of a scan each list holds its findings with strictly
\* increasing line numbers, each the 1-based position of its line in the file
\* (skipped lines counted), and every step leaves the findings already in a
\* list in place, adding at its end only.
C9_EncounterOrderAppendOnly ==
    []ListsInEncounterOrder /\ [][ListsOnlyGrow]_vars

\* a finding for the line after a line the gate skipped
C9_Witness ==
    \E f \in AllFindings : f.line > 1 /\ ~Passed(f.line - 1)

(* C10 *)

\* the configuration is missing or malformed: no mapping, a required key
\* absent or None, a value that is no list, or a pattern that does not compile
Malformed(cfg) ==
    \/ cfg.file # "mapping"
    \/ \E i \in 1..Len(required_keys) : cfg.doc[required_keys[i]].kind # "list"
    \/ \E i \in 1..Len(cfg.doc.sensitive_patterns.val) :
          ~Compiles(cfg.doc.sensitive_patterns.val[i])

\* C10: with a missing or malformed configuration the run ends before any
\* scanning: no line is classified into a finding and no report is generated.
C10_MalformedConfigIsFatal ==
    Malformed(config) =>
        /\ AllFindings = {}
        /\ Len(report) = 0

=============================================================================
